---------------------------- MODULE Spec2Model ----------------------------
(***************************************************************************)
(* Songs4Image: the scraping runs of production_scraper.py and             *)
(* fast_scraper.py (both built on the conventions of spotify_scraper.py).  *)
(*                                                                         *)
(* One process = one call of main().  pc is the position of that process:  *)
(*   ctor           SpotifyScraper.__init__ / FastSpotifyScraper.__init__  *)
(*   main_try       main() has entered its try block                       *)
(*   loop           head of `for index, row in df.iterrows()`              *)
(*   scrape         about to call scrape_track / extract_basic_info        *)
(*   backoff        time.sleep(random.uniform(5, 10)) before a retry       *)
(*   delay          adaptive_delay / minimal_delay                         *)
(*   checkpoint     save_progress at the 25-item cadence                   *)
(*   break          the 60-120 s pause every 100 items (production)        *)
(*   recycle_quit   self.driver.quit() of the browser restart              *)
(*   recycle_setup  sleep + self.setup_driver() of the browser restart     *)
(*   final_save     the code after the loop                                *)
(*   done           the process has ended                                  *)
(* An exception that leaves the try block of main() runs the except clause *)
(* and the finally clause within the step that raised it.                  *)
(*                                                                         *)
(* The rows of the CSV are numbered 0, 1, 2, ... (the pandas RangeIndex);  *)
(* a row's number stands for its track_id.  len(df) is only used by the    *)
(* code for log lines, so the model does not fix it in advance: at the     *)
(* loop head the iterator either yields row `index` or is exhausted.       *)
(*                                                                         *)
(* KeyboardInterrupt is delivered at the granularity of the statements of  *)
(* the loop (at most one per run).  driver.quit() tears the browser down   *)
(* even when it raises (the teardown of the service runs regardless).      *)
(***************************************************************************)
EXTENDS Integers, Sequences, FiniteSets, TLC

VARIABLES
    variant,        \* "production" | "fast": which scraper main() runs
    max_retries,    \* ProductionSpotifyScraper.max_retries
    start_index,    \* START_INDEX / start_index of main()
    flaky,          \* rows whose page fetch may misbehave (environment)
    maxRows,        \* upper bound on len(df) (environment)
    pages,          \* what the page fetch of each row does (environment)
    rng,            \* where random.uniform(a, b) lands in [a, b] (environment)
    batch_size,     \* the batch_size argument of scrape_all_tracks (environment)
    behindFrom,     \* the pace test of production_scrape holds at the end of
                    \* every iteration with completed >= behindFrom; 0 = never
                    \* (environment: the clock)
    pace_locals,    \* locals base_delay_min, base_delay_max of production_scrape
                    \* in tenths of a second; <<>> while unbound
    seen,           \* rows an earlier pass has already read from the same CSV
    pass,           \* 1 = first run of main(), 2 = the resumed run
    pc,             \* position of the process
    exc,            \* exception in flight: "none" | "Exception" | "KeyboardInterrupt"
    index,          \* number of rows df.iterrows() has yielded so far
    track_id,       \* row being processed (-1: none)
    attempt,        \* the `attempt` argument of scrape_track_with_retry
    results,        \* self.results
    failed_tracks,  \* self.failed_tracks
    success_count,  \* local success_count of production_scrape
    driver,         \* self.driver: 0 = None, n > 0 = the n-th browser
    live,           \* browsers that are running
    disk,           \* files under /workspaces/Songs4Image: name -> rows written
    acquires,       \* history: number of setup_driver() invocations
    calls,          \* history: scrape_track invocations for the current row
    allFail,        \* history: every invocation for the current row failed
    lastOut,        \* history: what the latest scrape_track invocation did
    last_delay,     \* history: tenths of a second the latest random_delay slept
    steps,          \* history: what the loop has done since the first scrape of
                    \* the latest row: "call", "sleep", "append", "rate",
                    \* "delay", "save", "break", "restart"
    backoffs,       \* history: tenths of a second of each backoff sleep of the row
    intAt,          \* history: pc at which KeyboardInterrupt arrived ("" = never)
    cause,          \* history: what raised the exception that ended the loop
    state           \* run state: Starting, Running, Completed, Interrupted, FatalError

vars == <<variant, max_retries, start_index, flaky, maxRows, seen, pass, pc, exc,
          index, track_id, attempt, results, failed_tracks, success_count,
          driver, live, disk, acquires, calls, allFail, intAt, cause, state,
          rng, lastOut, last_delay, backoffs, pages, behindFrom, pace_locals, batch_size, steps>>

env == <<variant, max_retries, flaky, maxRows, rng, pages, behindFrom, batch_size>>

---------------------------------------------------------------------------
(* Bounds of the model *)

MaxItems == 301         \* rows of the CSV in a production run
MaxItemsFast == 501     \* rows of the CSV in a fast run
RichItems == 1          \* rows 0..RichItems-1 may misbehave in the long runs
MaxStart == 1           \* start_index ranges over 0..MaxStart
ShortItems == 2         \* rows of the CSV in the retry specification
MaxRetriesTop == 4      \* max_retries ranges over 0..MaxRetriesTop there
ResumeItems == 51       \* rows of the CSV in the resume specification
BaseItems == 201        \* rows of the CSV in a run of scrape_all_tracks
LyricsItems == 12       \* rows of the CSV in a run of the lyrics pass
TestItems == 2          \* rows of the CSV in the test specification
DelayItems == 100       \* most rows processed in the delay specification

(* Constants of the program *)

DefaultMaxRetries == 3  \* ProductionSpotifyScraper(max_retries=3)
SaveEvery == 25         \* completed % 25 == 0
BreakEvery == 100       \* completed % 100 == 0
RestartEvery == 300     \* completed % 300 == 0 (production)
FastRestartEvery == 500 \* completed % 500 == 0 (fast)
BaseRestartEvery == 200 \* len(self.results) % 200 == 0 (scrape_all_tracks)
DefaultBatchSize == 50  \* scrape_all_tracks(..., batch_size=50)
LyricsSaveEvery == 10   \* total_processed % 10 == 0 (add_lyrics_to_csv)
LyricsMaxTracks == 50   \* add_lyrics_to_csv(..., start_index=0, max_tracks=50)
TestHead == 5           \* df.head(5) of test_scraper
BaseDelayMin == 20      \* base_delay_min=2, in tenths of a second
BaseDelayMax == 50      \* base_delay_max=5, in tenths of a second

---------------------------------------------------------------------------
(* Strings: the code tests `"Error" in s` and `"Failed" in s`. *)

NoneValue == "<None>"   \* Python's None as a field value

HasError(s) == s \in {"Error extracting lyrics", "Error extracting image", "Error: boom"}

HasFailed(s) == s \in {"Failed after max_retries attempts: boom", "Failed to extract"}

Rec(id, lyrics, cover) == [track_id |-> id, lyrics |-> lyrics, cover |-> cover]

(* What one call of SpotifyScraper.scrape_track can do: return a record    *)
(* (the lyrics and cover strings of extract_lyrics / extract_cover_image,  *)
(* or the record of its own except clause), or raise.  One return stands   *)
(* for each way the callers classify it: no "Error" in either field, an    *)
(* "Error" in the cover only, an "Error" in the lyrics.                    *)
ScrapeTrackReturns ==
    { <<"la la la", "i.scdn.co/image/ab67">>,
      <<"la la la", "Error extracting image">>,
      <<"Error: boom", "Error extracting image">> }

HealthyReturn == <<"la la la", "i.scdn.co/image/ab67">>

ScrapeTrackOutcomes(row, fl) ==
    IF row \in fl
      THEN [kind : {"return"}, val : ScrapeTrackReturns]
           \cup {[kind |-> "raise", val |-> <<"", "">>]}
      ELSE {[kind |-> "return", val |-> HealthyReturn]}

NoOutcome == [kind |-> "none", val |-> <<"", "">>]

(* FastSpotifyScraper.extract_basic_info: the cover_image it returns. *)
FastHealthyCover == "i.scdn.co/image/ab67"

ExtractBasicInfoCovers(row, fl) ==
    IF row \in fl
      THEN {FastHealthyCover, NoneValue, "Error: boom"}
      ELSE {FastHealthyCover}

---------------------------------------------------------------------------
(* Pure helpers of the loops *)

(* variant of ShouldRetry that allows one attempt more *)
ShouldRetry_OneMore(att, maxr) == att <= maxr

ShouldRetry(att, maxr) == att < maxr

(* variant of Retryable that never asks for another attempt *)
Retryable_Never(lyrics, cover) == FALSE

(* `"Error" in result['lyrics'] or "Error" in result['cover_image_url']` *)
Retryable(lyrics, cover) == HasError(lyrics) \/ HasError(cover)

CountsAsSuccess(lyrics) == ~HasError(lyrics) /\ ~HasFailed(lyrics)

FailedRecord(id) ==
    Rec(id, "Failed after max_retries attempts: boom", "Failed to extract")

(* variant of ShouldSkip that also skips the row at start_index *)
ShouldSkip_OneMore(idx, si) == idx <= si

(* `if index < start_index: continue` *)
ShouldSkip(idx, si) == idx < si

(* success_rate = success_count / completed if completed > 0 else 0, kept  *)
(* as the fraction <<numerator, denominator>>                              *)
SuccessRate(sc, completed) == IF completed > 0 THEN <<sc, completed>> ELSE <<0, 1>>

(* rate < num/den and rate > num/den for the float thresholds 0.8 = 4/5    *)
(* and 0.95 = 19/20                                                        *)
RateBelow(rate, num, den) == rate[1] * den < num * rate[2]

RateAbove(rate, num, den) == rate[1] * den > num * rate[2]

(* random.uniform(lo, hi) for the generator position r *)
Uniform(r, lo, hi) ==
    IF r = "lo" THEN lo ELSE IF r = "hi" THEN hi ELSE (lo + hi) \div 2

(* variant of AdaptiveRange that slows down at a rate of exactly 0.8 too *)
AdaptiveRange_Inclusive(rate, bmin, bmax) ==
    IF ~RateAbove(rate, 4, 5) THEN <<(bmin * 15) \div 10, bmax * 2>>
    ELSE IF RateAbove(rate, 19, 20) THEN <<(bmin * 8) \div 10, (bmax * 8) \div 10>>
    ELSE <<bmin, bmax>>

(* adaptive_delay lines 89-97: <<delay_min, delay_max>>, tenths of a second *)
AdaptiveRange(rate, bmin, bmax) ==
    IF RateBelow(rate, 4, 5) THEN <<(bmin * 15) \div 10, bmax * 2>>
    ELSE IF RateAbove(rate, 19, 20) THEN <<(bmin * 8) \div 10, (bmax * 8) \div 10>>
    ELSE <<bmin, bmax>>

(* adaptive_delay: self.random_delay(delay_min, delay_max) *)
AdaptiveDelay(r, rate, bmin, bmax) ==
    Uniform(r, AdaptiveRange(rate, bmin, bmax)[1], AdaptiveRange(rate, bmin, bmax)[2])

(* time.sleep(random.uniform(5, 10)) before a retry: the least and the     *)
(* greatest sleep it can draw, tenths of a second                          *)
BackoffDraws == {50, 100}

(* minimal_delay: time.sleep(random.uniform(0.5, 1.5)) *)
MinimalDelay(r) == Uniform(r, 5, 15)

(* variant of SaveDue that fires one item early *)
SaveDue_Early(completed) == completed % SaveEvery = SaveEvery - 1

SaveDue(completed) == completed % SaveEvery = 0

BreakDue(completed) == completed % BreakEvery = 0

(* variant of RestartDue that restarts the browser at the break cadence *)
RestartDue_AtBreak(v, completed) == completed % BreakEvery = 0

RestartDue(v, completed) ==
    IF v = "production" THEN completed % RestartEvery = 0
                        ELSE completed % FastRestartEvery = 0

(* variant of SaveProgress that misses the record appended last *)
SaveProgress_Stale(d, name, res) ==
    IF Len(res) <= 1 THEN d ELSE (name :> SubSeq(res, 1, Len(res) - 1)) @@ d

(* save_progress: writes self.results to the file, nothing when empty *)
SaveProgress(d, name, res) ==
    IF res = <<>> THEN d ELSE (name :> res) @@ d

ProgressName(v, completed) ==
    IF v = "production" THEN <<"progress", completed>> ELSE <<"fast", completed>>

(* scrape_all_tracks: save_progress() with its default file name *)
BaseProgressName == <<"progress", 0>>

FinalName(v) ==
    IF v = "fast" THEN <<"fast_final", 0>> ELSE <<"final", 0>>

InterruptedName(v, res) ==
    IF v = "fast" THEN <<"fast_interrupted", Len(res)>> ELSE <<"interrupted", 0>>

ErrorName(v, res) ==
    IF v = "fast" THEN <<"fast_error", Len(res)>> ELSE <<"error", 0>>

FailedName == <<"failed_tracks", 0>>

(* production_scrape lines 163-167: elapsed_hours > 0.5 and              *)
(* current_rate < target_rate * 0.8, as the clock makes them come out      *)
Behind(from, completed) == from > 0 /\ completed >= from

(* lines 170-171: max(1, 2 * 0.8) and max(2, 5 * 0.8), tenths of a second  *)
ReducedDelays == <<16, 40>>

(* the pace check that ends an iteration of production_scrape: it binds    *)
(* the locals base_delay_min and base_delay_max; an iteration that has     *)
(* not reached the end of the body (nxt is not the loop head) leaves them  *)
PaceCheck(v, nxt, from, completed, locals) ==
    IF v = "production" /\ nxt = "loop" /\ Behind(from, completed)
      THEN ReducedDelays
      ELSE locals

Min(a, b) == IF a <= b THEN a ELSE b

(* the steps of the row so far, extended by new; fresh: new opens a row *)
Step(st, fresh, new) == (IF fresh THEN <<>> ELSE st) \o new

(* Where the loop body goes after each step; the cadence tests that do not *)
(* fire are passed over.                                                   *)
AfterBreak(v, completed) ==
    IF RestartDue(v, completed) THEN "recycle_quit" ELSE "loop"

AfterCheckpoint(v, completed) ==
    IF v = "production"
      THEN IF BreakDue(completed) THEN "break" ELSE AfterBreak(v, completed)
      ELSE "delay"

(* variant of AfterDelay that passes over the periodic save *)
AfterDelay_NoSave(v, completed) ==
    IF v = "production" THEN AfterCheckpoint(v, completed)
                        ELSE AfterBreak(v, completed)

AfterDelay(v, completed) ==
    IF v = "production"
      THEN IF SaveDue(completed) THEN "checkpoint" ELSE AfterCheckpoint(v, completed)
      ELSE AfterBreak(v, completed)

AfterAppend(v, completed) ==
    IF v = "production" THEN "delay"
    ELSE IF SaveDue(completed) THEN "checkpoint" ELSE "delay"

---------------------------------------------------------------------------
(* Browser sessions *)

(* setup_driver: webdriver.Chrome(...) may raise before self.driver is     *)
(* assigned; the statements after the assignment (execute_script in        *)
(* spotify_scraper.py, set_page_load_timeout / implicitly_wait in          *)
(* fast_scraper.py) may raise with the new browser assigned and running.   *)
SetupOutcomes == {"ok", "raise_before", "raise_after"}

DriverAfterSetup(o, d, n) == IF o = "raise_before" THEN d ELSE n

LiveAfterSetup(o, l, n) == IF o = "raise_before" THEN l ELSE l \cup {n}

(* variant of Quit that leaves the browser running *)
Quit_Leak(l, d) == l

(* driver.quit() *)
Quit(l, d) == l \ {d}

(* variant of Close that leaves the browser running *)
Close_Skipped(l, d) == l

(* close() / `if scraper.driver: scraper.driver.quit()` *)
Close(l, d) == IF d # 0 THEN Quit(l, d) ELSE l

HandlerName(v, e, res) ==
    IF e = "KeyboardInterrupt" THEN InterruptedName(v, res) ELSE ErrorName(v, res)

(* variant of HandlerState that reports every handled exception as a      *)
(* completed run                                                           *)
HandlerState_Completed(e) == "Completed"

HandlerState(e) == IF e = "KeyboardInterrupt" THEN "Interrupted" ELSE "FatalError"

(* main(): an exception e (raised for reason c) leaves the try block with  *)
(* the files d, the results res, self.driver = drv and the browsers lv.    *)
(* The matching except clause writes res with save_progress; when that     *)
(* write raises, the new exception stays in flight.  Either way the        *)
(* finally clause closes the driver, and the process ends.                 *)
MainExcept(e, c, d, res, drv, lv) ==
    /\ pc' = "done"
    /\ state' = HandlerState(e)
    /\ live' = Close(lv, drv)
    /\ \/ /\ disk' = SaveProgress(d, HandlerName(variant, e, res), res)
          /\ exc' = "none"
          /\ cause' = c
       \/ /\ res # <<>>
          /\ disk' = d
          /\ exc' = "Exception"
          /\ cause' = "flush"

---------------------------------------------------------------------------
(* The process *)

ProcessStart(v, si) ==
    /\ variant = v
    /\ start_index = si
    /\ pc = "ctor"
    /\ exc = "none"
    /\ index = 0
    /\ track_id = -1
    /\ attempt = 1
    /\ results = <<>>
    /\ failed_tracks = <<>>
    /\ success_count = 0
    /\ driver = 0
    /\ live = {}
    /\ acquires = 0
    /\ calls = 0
    /\ allFail = TRUE
    /\ lastOut = NoOutcome
    /\ last_delay = 0
    /\ backoffs = <<>>
    /\ steps = <<>>
    /\ pace_locals = <<>>
    /\ intAt = ""
    /\ cause = "none"
    /\ state = "Starting"

Init ==
    /\ \E v \in {"production", "fast"}, si \in 0..MaxStart : ProcessStart(v, si)
    /\ max_retries = DefaultMaxRetries
    /\ flaky = 0..(RichItems - 1)
    /\ maxRows = IF variant = "production" THEN MaxItems ELSE MaxItemsFast
    /\ rng = "lo"
    /\ behindFrom = 0
    /\ pages = <<>>
    /\ batch_size = DefaultBatchSize
    /\ seen = 0
    /\ pass = 1
    /\ disk = <<>>

(* __init__: self.driver = None; self.setup_driver(); ...  The constructor *)
(* call in main() stands before the try block: an exception raised by it   *)
(* leaves main() without passing through except or finally.                *)
Ctor ==
    /\ pc = "ctor"
    /\ \E o \in SetupOutcomes :
         /\ acquires' = acquires + 1
         /\ driver' = DriverAfterSetup(o, driver, acquires + 1)
         /\ live' = LiveAfterSetup(o, live, acquires + 1)
         /\ IF o = "ok"
              THEN pc' = "main_try" /\ UNCHANGED <<exc, cause, state>>
              ELSE /\ pc' = "done"
                   /\ exc' = "Exception"
                   /\ cause' = "session"
                   /\ state' = "FatalError"
    /\ UNCHANGED <<env, steps, pace_locals, start_index, seen, pass, index, track_id, attempt, results,
                   failed_tracks, success_count, disk, calls, allFail, intAt,
                   lastOut, last_delay, backoffs>>

(* main(): the os.path.exists test (production only; a missing file is    *)
(* a plain return through finally) and the head of production_scrape /    *)
(* fast_scrape up to the loop (pd.read_csv may raise).                    *)
EnterScrape ==
    /\ pc = "main_try"
    /\ \/ /\ pc' = "loop"
          /\ state' = "Running"
          /\ UNCHANGED <<exc, cause, live, disk>>
       \/ /\ variant = "production"
          /\ pc' = "done"
          /\ live' = Close(live, driver)
          /\ UNCHANGED <<exc, cause, state, disk>>
       \/ MainExcept("Exception", "loader", disk, results, driver, live)
    /\ UNCHANGED <<env, steps, pace_locals, start_index, seen, pass, index, track_id, attempt, results,
                   failed_tracks, success_count, driver, acquires, calls, allFail,
                   intAt, lastOut, last_delay, backoffs>>

(* `if index < start_index: continue` *)
SkipRow ==
    /\ pc = "loop"
    /\ index < maxRows
    /\ ShouldSkip(index, start_index)
    /\ index' = index + 1
    /\ UNCHANGED <<env, steps, pace_locals, start_index, seen, pass, pc, exc, track_id, attempt, results,
                   failed_tracks, success_count, driver, live, disk, acquires,
                   calls, allFail, intAt, cause, state, lastOut, last_delay, backoffs>>

(* the iterator yields the next row; scrape_track_with_retry is entered    *)
(* with attempt=1                                                          *)
ReadRow ==
    /\ pc = "loop"
    /\ index < maxRows
    /\ ~ShouldSkip(index, start_index)
    /\ track_id' = index
    /\ index' = index + 1
    /\ attempt' = 1
    /\ calls' = 0
    /\ allFail' = TRUE
    /\ lastOut' = NoOutcome
    /\ backoffs' = <<>>
    /\ pc' = "scrape"
    /\ UNCHANGED <<env, steps, pace_locals, start_index, seen, pass, exc, results, failed_tracks,
                   success_count, driver, live, disk, acquires, intAt, cause, state,
                   last_delay>>

(* the iterator is exhausted *)
Exhausted ==
    /\ pc = "loop"
    /\ index >= seen
    /\ pc' = "final_save"
    /\ UNCHANGED <<env, steps, pace_locals, start_index, seen, pass, exc, index, track_id, attempt,
                   results, failed_tracks, success_count, driver, live, disk,
                   acquires, calls, allFail, intAt, cause, state, lastOut, last_delay, backoffs>>

(* production_scrape lines 128-135 for the record the retry controller     *)
(* returned                                                                *)
Finalize(rec) ==
    /\ results' = Append(results, rec)
    /\ success_count' = IF CountsAsSuccess(rec.lyrics) THEN success_count + 1
                                                       ELSE success_count
    /\ pc' = AfterAppend(variant, Len(results) + 1)

(* one frame of scrape_track_with_retry: call scrape_track, then either    *)
(* sleep and recurse with attempt + 1, or return to production_scrape      *)
ScrapeTrackWithRetry ==
    /\ pc = "scrape"
    /\ variant = "production"
    /\ calls' = calls + 1
    /\ \E out \in ScrapeTrackOutcomes(track_id, flaky) :
         /\ lastOut' = out
         /\ IF out.kind = "return"
              THEN /\ allFail' = (allFail /\ Retryable(out.val[1], out.val[2]))
                   /\ IF Retryable(out.val[1], out.val[2]) /\ ShouldRetry(attempt, max_retries)
                        THEN /\ pc' = "backoff"
                             /\ UNCHANGED <<results, success_count, failed_tracks>>
                        ELSE /\ Finalize(Rec(track_id, out.val[1], out.val[2]))
                             /\ UNCHANGED failed_tracks
              ELSE /\ allFail' = allFail
                   /\ IF ShouldRetry(attempt, max_retries)
                        THEN /\ pc' = "backoff"
                             /\ UNCHANGED <<results, success_count, failed_tracks>>
                        ELSE /\ failed_tracks' = Append(failed_tracks, track_id)
                             /\ Finalize(FailedRecord(track_id))
    /\ UNCHANGED <<env, pace_locals, start_index, seen, pass, exc, index, track_id, attempt,
                   driver, live, disk, acquires, intAt, cause, state, last_delay, backoffs>>
    /\ steps' = Step(steps, calls = 0,
                       IF pc' = "backoff" THEN <<"call">> ELSE <<"call", "append", "rate">>)

(* variant of Backoff that recurses with the same attempt number *)
Backoff_SameAttempt ==
    /\ pc = "backoff"
    /\ pc' = "scrape"
    /\ UNCHANGED <<env, steps, pace_locals, start_index, seen, pass, exc, index, track_id, attempt,
                   results, failed_tracks, success_count, driver, live, disk,
                   acquires, calls, allFail, intAt, cause, state, lastOut,
                   last_delay, backoffs>>

(* time.sleep(random.uniform(5, 10)); return self.scrape_track_with_retry( *)
(* track_id, track_name, attempt + 1)                                      *)
Backoff ==
    /\ pc = "backoff"
    /\ \E d \in BackoffDraws : backoffs' = Append(backoffs, d)
    /\ attempt' = attempt + 1
    /\ pc' = "scrape"
    /\ UNCHANGED <<env, pace_locals, start_index, seen, pass, exc, index, track_id, results,
                   failed_tracks, success_count, driver, live, disk, acquires,
                   calls, allFail, intAt, cause, state, lastOut, last_delay>>
    /\ steps' = Step(steps, FALSE, <<"sleep">>)

(* fast_scrape lines 153-158: extract_basic_info, append, and the test     *)
(* `"Error" in result['cover_image']`, a TypeError when the value is None  *)
ExtractBasicInfo ==
    /\ pc = "scrape"
    /\ variant = "fast"
    /\ calls' = calls + 1
    /\ \E cover \in ExtractBasicInfoCovers(track_id, flaky) :
         LET rec == Rec(track_id,
                        IF HasError(cover) THEN "Error: boom" ELSE "Skipped for speed",
                        cover)
         IN /\ results' = Append(results, rec)
            /\ allFail' = (allFail /\ cover # NoneValue /\ HasError(cover))
            /\ IF cover = NoneValue
                 THEN /\ MainExcept("Exception", "item", disk, Append(results, rec),
                                    driver, live)
                      /\ UNCHANGED failed_tracks
                 ELSE /\ failed_tracks' = IF HasError(cover)
                                            THEN Append(failed_tracks, track_id)
                                            ELSE failed_tracks
                      /\ pc' = AfterAppend(variant, Len(results) + 1)
                      /\ UNCHANGED <<exc, cause, state, live, disk>>
    /\ UNCHANGED <<env, pace_locals, start_index, seen, pass, index, track_id, attempt,
                   success_count, driver, acquires, intAt, lastOut, last_delay, backoffs>>
    /\ steps' = Step(steps, calls = 0, <<"call", "append">>)

(* production_scrape lines 134-138: completed, success_rate and            *)
(* self.adaptive_delay(success_rate); fast_scrape: self.minimal_delay()    *)
Delay ==
    /\ pc = "delay"
    /\ last_delay' =
         IF variant = "production"
           THEN AdaptiveDelay(rng, SuccessRate(success_count, Len(results)),
                              BaseDelayMin, BaseDelayMax)
           ELSE MinimalDelay(rng)
    /\ pc' = AfterDelay(variant, Len(results))
    /\ UNCHANGED <<env, start_index, seen, pass, exc, index, track_id, attempt,
                   results, failed_tracks, success_count, driver, live, disk,
                   acquires, calls, allFail, intAt, cause, state, lastOut,
                   backoffs>>
    /\ steps' = Step(steps, FALSE, <<"delay">>)
    /\ pace_locals' = PaceCheck(variant, pc', behindFrom, Len(results), pace_locals)

(* `if completed % 25 == 0: self.save_progress(...)`; to_csv may raise *)
Checkpoint ==
    /\ pc = "checkpoint"
    /\ \/ /\ disk' = SaveProgress(disk, ProgressName(variant, Len(results)), results)
          /\ pc' = AfterCheckpoint(variant, Len(results))
          /\ UNCHANGED <<exc, cause, state, live>>
       \/ MainExcept("Exception", "ledger", disk, results, driver, live)
    /\ UNCHANGED <<env, start_index, seen, pass, index, track_id, attempt, results,
                   failed_tracks, success_count, driver, acquires, calls, allFail,
                   intAt, lastOut, last_delay, backoffs>>
    /\ steps' = Step(steps, FALSE, <<"save">>)
    /\ pace_locals' = PaceCheck(variant, pc', behindFrom, Len(results), pace_locals)

(* `if completed % 100 == 0: time.sleep(random.uniform(60, 120))` *)
ExtendedBreak ==
    /\ pc = "break"
    /\ pc' = AfterBreak(variant, Len(results))
    /\ UNCHANGED <<env, start_index, seen, pass, exc, index, track_id, attempt,
                   results, failed_tracks, success_count, driver, live, disk,
                   acquires, calls, allFail, intAt, cause, state, lastOut, last_delay, backoffs>>
    /\ steps' = Step(steps, FALSE, <<"break">>)
    /\ pace_locals' = PaceCheck(variant, pc', behindFrom, Len(results), pace_locals)

(* browser restart, first half: self.driver.quit() *)
RecycleQuit ==
    /\ pc = "recycle_quit"
    /\ \/ /\ live' = Quit(live, driver)
          /\ pc' = "recycle_setup"
          /\ UNCHANGED <<exc, cause, state, disk>>
       \/ MainExcept("Exception", "session", disk, results, driver, Quit(live, driver))
    /\ UNCHANGED <<env, steps, pace_locals, start_index, seen, pass, index, track_id, attempt, results,
                   failed_tracks, success_count, driver, acquires, calls, allFail,
                   intAt, lastOut, last_delay, backoffs>>

(* browser restart, second half: time.sleep(..); self.setup_driver() *)
RecycleSetup ==
    /\ pc = "recycle_setup"
    /\ acquires' = acquires + 1
    /\ \E o \in SetupOutcomes :
         /\ driver' = DriverAfterSetup(o, driver, acquires + 1)
         /\ IF o = "ok"
              THEN /\ live' = LiveAfterSetup(o, live, acquires + 1)
                   /\ pc' = "loop"
                   /\ UNCHANGED <<exc, cause, state, disk>>
              ELSE MainExcept("Exception", "session", disk, results,
                              DriverAfterSetup(o, driver, acquires + 1),
                              LiveAfterSetup(o, live, acquires + 1))
    /\ UNCHANGED <<env, start_index, seen, pass, index, track_id, attempt, results,
                   failed_tracks, success_count, calls, allFail, intAt,
                   lastOut, last_delay, backoffs>>
    /\ steps' = Step(steps, FALSE, <<"restart">>)
    /\ pace_locals' = PaceCheck(variant, pc', behindFrom, Len(results), pace_locals)

(* after the loop: the final save, the failed_tracks file (production),    *)
(* the summary (fast_scrape divides by len(self.results)); then main()'s   *)
(* finally clause                                                          *)
FinalSave ==
    /\ pc = "final_save"
    /\ \/ /\ results # <<>>
          /\ MainExcept("Exception", "ledger", disk, results, driver, live)
       \/ /\ variant = "production"
          /\ failed_tracks # <<>>
          /\ MainExcept("Exception", "ledger",
                        SaveProgress(disk, FinalName(variant), results),
                        results, driver, live)
       \/ /\ variant = "fast"
          /\ results = <<>>
          /\ MainExcept("Exception", "summary", disk, results, driver, live)
       \/ /\ variant = "fast" => results # <<>>
          /\ disk' = IF variant = "production" /\ failed_tracks # <<>>
                       THEN (FailedName :> failed_tracks)
                            @@ SaveProgress(disk, FinalName(variant), results)
                       ELSE SaveProgress(disk, FinalName(variant), results)
          /\ live' = Close(live, driver)
          /\ pc' = "done"
          /\ state' = "Completed"
          /\ UNCHANGED <<exc, cause>>
    /\ UNCHANGED <<env, steps, pace_locals, start_index, seen, pass, index, track_id, attempt, results,
                   failed_tracks, success_count, driver, acquires, calls, allFail,
                   intAt, lastOut, last_delay, backoffs>>

(* KeyboardInterrupt arrives while the process is at pc, inside main()'s   *)
(* try block                                                               *)
InterruptiblePcs ==
    {"main_try", "loop", "scrape", "backoff", "delay", "checkpoint", "break", "base_save",
     "recycle_quit", "recycle_setup", "final_save"}

Interrupt ==
    /\ pc \in InterruptiblePcs
    /\ intAt' = pc
    /\ MainExcept("KeyboardInterrupt", "signal", disk, results, driver, live)
    /\ UNCHANGED <<env, steps, pace_locals, start_index, seen, pass, index, track_id, attempt, results,
                   failed_tracks, success_count, driver, acquires, calls, allFail,
                   lastOut, last_delay, backoffs>>

Next ==
    \/ Ctor
    \/ EnterScrape
    \/ SkipRow
    \/ ReadRow
    \/ Exhausted
    \/ ScrapeTrackWithRetry
    \/ Backoff
    \/ ExtractBasicInfo
    \/ Delay
    \/ Checkpoint
    \/ ExtendedBreak
    \/ RecycleQuit
    \/ RecycleSetup
    \/ FinalSave
    \/ Interrupt

Spec == Init /\ [][Next]_vars

TypeOK ==
    /\ pc \in {"ctor", "main_try", "loop", "scrape", "backoff", "delay", "checkpoint", "base_save",
               "lyrics_save", "lyrics_sleep", "break", "recycle_quit", "recycle_setup", "final_save", "done"}
    /\ exc \in {"none", "Exception", "KeyboardInterrupt"}
    /\ attempt >= 1
    /\ driver \in 0..acquires

---------------------------------------------------------------------------
(* The retry controller on short lists: every row may misbehave on every   *)
(* attempt, and max_retries ranges over 0..MaxRetriesTop.                  *)

InitRetry ==
    /\ ProcessStart("production", 0)
    /\ max_retries \in 0..MaxRetriesTop
    /\ flaky = 0..(ShortItems - 1)
    /\ maxRows = ShortItems
    /\ rng = "lo"
    /\ behindFrom \in 0..1
    /\ pages = <<>>
    /\ batch_size = DefaultBatchSize
    /\ seen = 0
    /\ pass = 1
    /\ disk = <<>>

NextRetry ==
    \/ Ctor
    \/ EnterScrape
    \/ ReadRow
    \/ Exhausted
    \/ ScrapeTrackWithRetry
    \/ Backoff
    \/ Delay
    \/ FinalSave
    \/ Interrupt

SpecRetry == InitRetry /\ [][NextRetry]_vars

(* The same runs of a process that keeps running: main() is one sequential *)
(* thread, every call it makes returns or raises and every sleep ends, so  *)
(* a step that is possible is eventually taken.  KeyboardInterrupt may or  *)
(* may not arrive.                                                         *)
SpecRetryFair == SpecRetry /\ WF_vars(NextRetry)

---------------------------------------------------------------------------
(* Resuming: a first run of production main() is cut short (killed at any  *)
(* point, or ended by its own handlers) and main() is started again on the *)
(* same CSV and the same directory, with START_INDEX set to the number of  *)
(* the latest progress file.  The pages are healthy, so the extractor is   *)
(* deterministic.                                                          *)

IsProgress(f) == f[1] \in {"progress", "fast"}

ProgressCursors(d) == {f[2] : f \in {g \in DOMAIN d : IsProgress(g)}}

LastCheckpoint(d) ==
    IF ProgressCursors(d) = {} THEN 0
    ELSE CHOOSE c \in ProgressCursors(d) : \A e \in ProgressCursors(d) : e <= c

InitResume ==
    /\ ProcessStart("production", 0)
    /\ max_retries = DefaultMaxRetries
    /\ flaky = {}
    /\ maxRows = ResumeItems
    /\ rng = "lo"
    /\ behindFrom = 0
    /\ pages = <<>>
    /\ batch_size = DefaultBatchSize
    /\ seen = 0
    /\ pass = 1
    /\ disk = <<>>

Resume ==
    /\ pass = 1
    /\ pc # "ctor"
    /\ state # "Completed"
    /\ pass' = 2
    /\ seen' = index
    /\ start_index' = LastCheckpoint(disk)
    /\ pc' = "ctor"
    /\ exc' = "none"
    /\ index' = 0
    /\ track_id' = -1
    /\ attempt' = 1
    /\ results' = <<>>
    /\ failed_tracks' = <<>>
    /\ success_count' = 0
    /\ driver' = 0
    /\ live' = {}
    /\ acquires' = 0
    /\ calls' = 0
    /\ allFail' = TRUE
    /\ lastOut' = NoOutcome
    /\ last_delay' = 0
    /\ backoffs' = <<>>
    /\ steps' = <<>>
    /\ pace_locals' = <<>>
    /\ intAt' = ""
    /\ cause' = "none"
    /\ state' = "Starting"
    /\ UNCHANGED <<env, disk>>

NextResume ==
    \/ Ctor
    \/ EnterScrape
    \/ SkipRow
    \/ ReadRow
    \/ Exhausted
    \/ ScrapeTrackWithRetry
    \/ Delay
    \/ Checkpoint
    \/ FinalSave
    \/ Interrupt
    \/ Resume

SpecResume == InitResume /\ [][NextResume]_vars

---------------------------------------------------------------------------
(* spotify_scraper.py: main() driving scrape_all_tracks.  The constructor, *)
(* the head of the method, the row iterator, the browser restart, the      *)
(* final save and main()'s handlers are the steps above; the body of the   *)
(* loop is its own.  batch_count, which only selects an extra sleep, is    *)
(* len(self.results) // batch_size at every save and is not kept.          *)

BatchSizes == {1, 30, 50, 200}

BaseSaveDue(completed, bs) == completed % bs = 0

(* the restart test as the code reaches it: inside the batch_size test *)
BaseRestartDue(completed, bs) ==
    BaseSaveDue(completed, bs) /\ completed % BaseRestartEvery = 0

InitBase ==
    /\ \E si \in 0..MaxStart : ProcessStart("base", si)
    /\ max_retries = DefaultMaxRetries
    /\ flaky = 0..(RichItems - 1)
    /\ maxRows = BaseItems
    /\ rng = "lo"
    /\ behindFrom = 0
    /\ pages = <<>>
    /\ batch_size \in BatchSizes
    /\ seen = 0
    /\ pass = 1
    /\ disk = <<>>

(* lines 217-225: scrape_track (which returns a record whatever the page   *)
(* does), append, random_delay(2, 5)                                       *)
BaseScrapeTrack ==
    /\ pc = "scrape"
    /\ variant = "base"
    /\ calls' = calls + 1
    /\ \E val \in (IF track_id \in flaky THEN ScrapeTrackReturns ELSE {HealthyReturn}) :
         /\ lastOut' = [kind |-> "return", val |-> val]
         /\ allFail' = (allFail /\ Retryable(val[1], val[2]))
         /\ results' = Append(results, Rec(track_id, val[1], val[2]))
    /\ last_delay' = Uniform(rng, BaseDelayMin, BaseDelayMax)
    /\ pc' = IF BaseSaveDue(Len(results) + 1, batch_size) THEN "base_save" ELSE "loop"
    /\ UNCHANGED <<env, pace_locals, start_index, seen, pass, exc, index, track_id,
                   attempt, failed_tracks, success_count, driver, live, disk,
                   acquires, intAt, cause, state, backoffs>>
    /\ steps' = Step(steps, TRUE, <<"call", "append", "delay">>)

(* lines 228-238: save_progress() (to_csv may raise), batch_count, the     *)
(* extended break, and the restart test                                    *)
BaseSave ==
    /\ pc = "base_save"
    /\ \/ /\ disk' = SaveProgress(disk, BaseProgressName, results)
          /\ pc' = IF BaseRestartDue(Len(results), batch_size) THEN "recycle_quit"
                                                                ELSE "loop"
          /\ UNCHANGED <<exc, cause, state, live>>
       \/ MainExcept("Exception", "ledger", disk, results, driver, live)
    /\ UNCHANGED <<env, pace_locals, start_index, seen, pass, index, track_id,
                   attempt, results, failed_tracks, success_count, driver,
                   acquires, calls, allFail, intAt, lastOut, last_delay, backoffs>>
    /\ steps' = Step(steps, FALSE, <<"save">>)

NextBase ==
    \/ Ctor
    \/ EnterScrape
    \/ SkipRow
    \/ ReadRow
    \/ Exhausted
    \/ BaseScrapeTrack
    \/ BaseSave
    \/ RecycleQuit
    \/ RecycleSetup
    \/ FinalSave
    \/ Interrupt

SpecBase == InitBase /\ [][NextBase]_vars

---------------------------------------------------------------------------
(* lyrics_extractor.py: main() driving add_lyrics_to_csv on the latest     *)
(* file of the fast scraper.  pages[i] tells what row i holds and what its *)
(* page does: "kept" (the row already has lyrics and is passed over),      *)
(* "ok", "no_lyrics", "raise".  results stands for the rows of the local   *)
(* DataFrame whose lyrics the pass has replaced, in order, so that         *)
(* total_processed = Len(results).  With max_tracks=50 the restart test    *)
(* `total_processed % 100 == 0` never holds.                               *)

LyricsPages == {"kept", "ok", "no_lyrics", "raise"}

LyricsOutName == <<"with_lyrics", 0>>

(* extract_full_lyrics: the lines joined by " | "; "No lyrics available"   *)
(* on the TimeoutException; f"Error: {e}" on any other exception           *)
ExtractFullLyrics(l) ==
    IF l = "ok" THEN "la | la | la"
    ELSE IF l = "no_lyrics" THEN "No lyrics available"
    ELSE "Error: boom"

(* `not lyrics.startswith("Error") and lyrics != "No lyrics available"` *)
LyricsSuccess(lyrics) == lyrics \notin {"Error: boom", "No lyrics available"}

LyricsSaveDue(processed) == processed % LyricsSaveEvery = 0

(* main(): the except clauses only print; the files stay as they are *)
LyricsHandler(d, res) == d

(* main(): an exception leaves add_lyrics_to_csv, whose DataFrame is lost  *)
(* with it; the except clause runs, then the finally clause quits the      *)
(* driver                                                                  *)
LyricsExcept(e, c) ==
    /\ pc' = "done"
    /\ state' = HandlerState(e)
    /\ live' = Close(live, driver)
    /\ disk' = LyricsHandler(disk, results)
    /\ exc' = "none"
    /\ cause' = c

InitLyrics ==
    /\ ProcessStart("lyrics", 0)
    /\ max_retries = DefaultMaxRetries
    /\ flaky = 0..(RichItems - 1)
    /\ maxRows = Min(LyricsItems, LyricsMaxTracks)
    /\ rng = "lo"
    /\ behindFrom = 0
    /\ \E f \in [0..(RichItems - 1) -> LyricsPages] :
          pages = [i \in 0..(LyricsItems - 1) |-> IF i < RichItems THEN f[i] ELSE "ok"]
    /\ batch_size = DefaultBatchSize
    /\ seen = 0
    /\ pass = 1
    /\ disk = <<>>

(* main() lines 216-220: no file of the fast scraper, plain return *)
LyricsNoInput ==
    /\ pc = "ctor"
    /\ variant = "lyrics"
    /\ pc' = "done"
    /\ UNCHANGED <<env, steps, pace_locals, start_index, seen, pass, exc, index,
                   track_id, attempt, results, failed_tracks, success_count,
                   driver, live, disk, acquires, calls, allFail, intAt, cause,
                   state, lastOut, last_delay, backoffs>>

(* add_lyrics_to_csv lines 148-157: pd.read_csv may raise *)
LyricsEnter ==
    /\ pc = "main_try"
    /\ variant = "lyrics"
    /\ \/ /\ pc' = "loop"
          /\ state' = "Running"
          /\ UNCHANGED <<exc, cause, live, disk>>
       \/ LyricsExcept("Exception", "loader")
    /\ UNCHANGED <<env, steps, pace_locals, start_index, seen, pass, index, track_id,
                   attempt, results, failed_tracks, success_count, driver,
                   acquires, calls, allFail, intAt, lastOut, last_delay, backoffs>>

(* lines 159-169: a row before start_index or with lyrics of its own *)
LyricsSkip ==
    /\ pc = "loop"
    /\ variant = "lyrics"
    /\ index < maxRows
    /\ ShouldSkip(index, start_index) \/ pages[index] = "kept"
    /\ index' = index + 1
    /\ UNCHANGED <<env, steps, pace_locals, start_index, seen, pass, pc, exc,
                   track_id, attempt, results, failed_tracks, success_count,
                   driver, live, disk, acquires, calls, allFail, intAt, cause,
                   state, lastOut, last_delay, backoffs>>

(* lines 171-186: extract_full_lyrics (which returns a string whatever the *)
(* page does), the two df.at updates, the counters, and the save test      *)
LyricsRow ==
    /\ pc = "loop"
    /\ variant = "lyrics"
    /\ index < maxRows
    /\ ~(ShouldSkip(index, start_index) \/ pages[index] = "kept")
    /\ track_id' = index
    /\ index' = index + 1
    /\ calls' = 1
    /\ results' = Append(results, Rec(index, ExtractFullLyrics(pages[index]),
                                      FastHealthyCover))
    /\ success_count' = IF LyricsSuccess(ExtractFullLyrics(pages[index]))
                           THEN success_count + 1 ELSE success_count
    /\ pc' = IF LyricsSaveDue(Len(results) + 1) THEN "lyrics_save" ELSE "lyrics_sleep"
    /\ steps' = Step(steps, TRUE, <<"call", "append", "rate">>)
    /\ UNCHANGED <<env, pace_locals, start_index, seen, pass, exc, attempt,
                   failed_tracks, driver, live, disk, acquires, allFail, intAt,
                   cause, state, lastOut, last_delay, backoffs>>

(* lines 187-189: df.to_csv(output_csv), which may raise *)
LyricsSave ==
    /\ pc = "lyrics_save"
    /\ \/ /\ disk' = (LyricsOutName :> results) @@ disk
          /\ pc' = "lyrics_sleep"
          /\ UNCHANGED <<exc, cause, state, live>>
       \/ LyricsExcept("Exception", "ledger")
    /\ steps' = Step(steps, FALSE, <<"save">>)
    /\ UNCHANGED <<env, pace_locals, start_index, seen, pass, index, track_id,
                   attempt, results, failed_tracks, success_count, driver,
                   acquires, calls, allFail, intAt, lastOut, last_delay, backoffs>>

(* line 192: time.sleep(random.uniform(1, 3)), tenths of a second *)
LyricsSleep ==
    /\ pc = "lyrics_sleep"
    /\ last_delay' = Uniform(rng, 10, 30)
    /\ pc' = "loop"
    /\ steps' = Step(steps, FALSE, <<"delay">>)
    /\ UNCHANGED <<env, pace_locals, start_index, seen, pass, exc, index, track_id,
                   attempt, results, failed_tracks, success_count, driver, live,
                   disk, acquires, calls, allFail, intAt, cause, state, lastOut,
                   backoffs>>

(* lines 201-210 and main()'s finally: the final df.to_csv, the summary *)
LyricsFinal ==
    /\ pc = "final_save"
    /\ variant = "lyrics"
    /\ \/ /\ disk' = (LyricsOutName :> results) @@ disk
          /\ live' = Close(live, driver)
          /\ pc' = "done"
          /\ state' = "Completed"
          /\ UNCHANGED <<exc, cause>>
       \/ LyricsExcept("Exception", "ledger")
    /\ UNCHANGED <<env, steps, pace_locals, start_index, seen, pass, index, track_id,
                   attempt, results, failed_tracks, success_count, driver,
                   acquires, calls, allFail, intAt, lastOut, last_delay, backoffs>>

(* KeyboardInterrupt inside main()'s try block *)
LyricsInterrupt ==
    /\ variant = "lyrics"
    /\ pc \in {"main_try", "loop", "lyrics_save", "lyrics_sleep", "final_save"}
    /\ intAt' = pc
    /\ LyricsExcept("KeyboardInterrupt", "signal")
    /\ UNCHANGED <<env, steps, pace_locals, start_index, seen, pass, index, track_id,
                   attempt, results, failed_tracks, success_count, driver,
                   acquires, calls, allFail, lastOut, last_delay, backoffs>>

NextLyrics ==
    \/ LyricsNoInput
    \/ Ctor
    \/ LyricsEnter
    \/ LyricsSkip
    \/ LyricsRow
    \/ LyricsSave
    \/ LyricsSleep
    \/ Exhausted
    \/ LyricsFinal
    \/ LyricsInterrupt

SpecLyrics == InitLyrics /\ [][NextLyrics]_vars

---------------------------------------------------------------------------
(* test_scraper.py: scrape_track on the first rows of the CSV, one         *)
(* test_result_<index>.csv per row.  pages[i] = <<l, c>> tells what the    *)
(* page of row i does to extract_lyrics (l) and extract_cover_image (c).   *)

LyricsFetches == {"ok", "no_lyrics", "raise"}

CoverFetches == {"ok", "no_image", "raise"}

(* variant of ExtractLyrics that lets a failed fetch pass as empty lyrics *)
ExtractLyrics_Unmarked(l) ==
    IF l = "ok" THEN "la la la"
    ELSE IF l = "no_lyrics" THEN "No lyrics available"
    ELSE ""

(* extract_lyrics: the lyric lines; "No lyrics available" on the inner     *)
(* TimeoutException; "Error extracting lyrics" on any other exception      *)
ExtractLyrics(l) ==
    IF l = "ok" THEN "la la la"
    ELSE IF l = "no_lyrics" THEN "No lyrics available"
    ELSE "Error extracting lyrics"

(* extract_cover_image: the image URL; "No image available" when no img    *)
(* matches; "Error extracting image" on an exception                       *)
ExtractCoverImage(c) ==
    IF c = "ok" THEN "i.scdn.co/image/ab67"
    ELSE IF c = "no_image" THEN "No image available"
    ELSE "Error extracting image"

(* scrape_track lines 168-180 *)
ScrapeTrack(id, p) == Rec(id, ExtractLyrics(p[1]), ExtractCoverImage(p[2]))

TestResultName(i) == <<"test_result", i>>

InitTest ==
    /\ ProcessStart("test", 0)
    /\ max_retries = DefaultMaxRetries
    /\ flaky = 0..(TestItems - 1)
    /\ maxRows = Min(TestItems, TestHead)
    /\ rng = "lo"
    /\ behindFrom = 0
    /\ pages \in [0..(TestItems - 1) -> LyricsFetches \X CoverFetches]
    /\ batch_size = DefaultBatchSize
    /\ seen = 0
    /\ pass = 1
    /\ disk = <<>>

(* lines 18-25: pd.read_csv, df.head(5), SpotifyScraper().  An exception   *)
(* is caught at line 51; `scraper` is not bound yet, so nothing is closed. *)
TestSetup ==
    /\ pc = "ctor"
    /\ variant = "test"
    /\ \/ /\ pc' = "done"
          /\ state' = "FatalError"
          /\ cause' = "loader"
          /\ UNCHANGED <<acquires, driver, live>>
       \/ \E o \in SetupOutcomes :
            /\ acquires' = acquires + 1
            /\ driver' = DriverAfterSetup(o, driver, acquires + 1)
            /\ live' = LiveAfterSetup(o, live, acquires + 1)
            /\ IF o = "ok"
                 THEN pc' = "loop" /\ state' = "Running" /\ UNCHANGED cause
                 ELSE pc' = "done" /\ state' = "FatalError" /\ cause' = "session"
    /\ UNCHANGED <<env, steps, pace_locals, start_index, seen, pass, exc, index, track_id, attempt,
                   results, failed_tracks, success_count, disk, calls, allFail,
                   intAt, lastOut, last_delay, backoffs>>

(* lines 27-46: one row of the loop; to_csv may raise, and then line 53    *)
(* closes the scraper                                                      *)
TestTrack ==
    /\ pc = "loop"
    /\ variant = "test"
    /\ index < maxRows
    /\ track_id' = index
    /\ index' = index + 1
    /\ calls' = 1
    /\ LET rec == ScrapeTrack(index, pages[index])
       IN  /\ lastOut' = [kind |-> "return", val |-> <<rec.lyrics, rec.cover>>]
           /\ \/ /\ disk' = (TestResultName(index) :> <<rec>>) @@ disk
                 /\ UNCHANGED <<pc, state, cause, live>>
              \/ /\ pc' = "done"
                 /\ state' = "FatalError"
                 /\ cause' = "ledger"
                 /\ live' = Close(live, driver)
                 /\ UNCHANGED disk
    /\ UNCHANGED <<env, pace_locals, start_index, seen, pass, exc, attempt, results,
                   failed_tracks, success_count, driver, acquires, allFail, intAt,
                   last_delay, backoffs>>
    /\ steps' = Step(steps, TRUE, <<"call", "save">>)

(* lines 48-49: the rows are exhausted; scraper.close() *)
TestClose ==
    /\ pc = "loop"
    /\ variant = "test"
    /\ live' = Close(live, driver)
    /\ pc' = "done"
    /\ state' = "Completed"
    /\ UNCHANGED <<env, steps, pace_locals, start_index, seen, pass, exc, index, track_id, attempt,
                   results, failed_tracks, success_count, driver, disk, acquires,
                   calls, allFail, intAt, cause, lastOut, last_delay, backoffs>>

NextTest ==
    \/ TestSetup
    \/ TestTrack
    \/ TestClose

SpecTest == InitTest /\ [][NextTest]_vars

---------------------------------------------------------------------------
(* adaptive_delay on its inputs: production_scrape has appended the n-th   *)
(* record, s of the n records count as successes (the first s rows were    *)
(* healthy, the others returned an error record on all max_retries         *)
(* attempts), the periodic files of the earlier multiples of 25 are        *)
(* written, and the loop is about to call adaptive_delay.                  *)

ErrorReturn == <<"Error: boom", "Error extracting image">>

ResultsOf(n, s) ==
    [i \in 1..n |-> IF i <= s THEN Rec(i - 1, HealthyReturn[1], HealthyReturn[2])
                              ELSE Rec(i - 1, ErrorReturn[1], ErrorReturn[2])]

InitDelay ==
    /\ variant = "production"
    /\ max_retries = DefaultMaxRetries
    /\ start_index = 0
    /\ flaky = 0..(DelayItems - 1)
    /\ maxRows = DelayItems
    /\ rng \in {"lo", "mid", "hi"}
    /\ behindFrom \in 0..1
    /\ pages = <<>>
    /\ batch_size = DefaultBatchSize
    /\ seen = 0
    /\ pass = 1
    /\ pc = "delay"
    /\ exc = "none"
    /\ \E n \in 1..DelayItems, s \in 0..DelayItems :
         /\ s <= n
         /\ index = n
         /\ track_id = n - 1
         /\ results = ResultsOf(n, s)
         /\ success_count = s
         /\ attempt = IF s = n THEN 1 ELSE DefaultMaxRetries
         /\ calls = IF s = n THEN 1 ELSE DefaultMaxRetries
         /\ allFail = (s < n)
         /\ backoffs = IF s = n THEN <<>> ELSE <<50, 50>>
         /\ steps = IF s = n THEN <<"call", "append", "rate">>
                    ELSE <<"call", "sleep", "call", "sleep", "call", "append", "rate">>
         /\ pace_locals = IF Behind(behindFrom, n - 1) THEN ReducedDelays ELSE <<>>
         /\ lastOut = [kind |-> "return",
                       val |-> IF s = n THEN HealthyReturn ELSE ErrorReturn]
         /\ last_delay = IF n = 1 THEN 0
                         ELSE AdaptiveDelay(rng, SuccessRate(Min(s, n - 1), n - 1),
                                            BaseDelayMin, BaseDelayMax)
         /\ disk = [f \in {ProgressName("production", c) :
                             c \in {d \in 1..(n - 1) : SaveDue(d)}}
                      |-> SubSeq(ResultsOf(n, s), 1, f[2])]
    /\ failed_tracks = <<>>
    /\ driver = 1
    /\ live = {1}
    /\ acquires = 1
    /\ intAt = ""
    /\ cause = "none"
    /\ state = "Running"

NextDelay == Delay

SpecDelay == InitDelay /\ [][NextDelay]_vars

---------------------------------------------------------------------------
(* Vocabulary of the properties *)

Range(q) == {q[i] : i \in 1..Len(q)}

Max(a, b) == IF a >= b THEN a ELSE b

CeilDiv(a, b) == (a + b - 1) \div b

(* the retry controller has returned for the current row and its record    *)
(* has been appended                                                       *)
Returned ==
    /\ track_id >= 0
    /\ results # <<>>
    /\ results[Len(results)].track_id = track_id

(* result records in the files of the directory (the failed_tracks file    *)
(* holds track ids, not result records)                                    *)
ResultFiles == {f \in DOMAIN disk : f # FailedName}

PersistedRecords == UNION {Range(disk[f]) : f \in ResultFiles}

(* positions between two items: the previous item's record is appended,    *)
(* the next scrape_track_with_retry call has not begun                     *)
BoundaryPcs ==
    {"main_try", "loop", "delay", "checkpoint", "break", "recycle_quit",
     "recycle_setup", "final_save"}

FlushName == HandlerName(variant, IF intAt # "" THEN "KeyboardInterrupt" ELSE "Exception",
                         results)

(* a record whose attempt sequence ended in failure: the last attempt was  *)
(* still retryable, or it raised and the "Failed after" record was built   *)
FailedOutcome(r) == Retryable(r.lyrics, r.cover) \/ r = FailedRecord(r.track_id)

---------------------------------------------------------------------------
(* C1 (as stated): when every invocation of scrape_track for a row failed  *)
(* (raised, or returned a record with "Error" in lyrics or cover), the     *)
(* retry controller has invoked it exactly max_retries + 1 times when it   *)
(* returns.                                                                *)
C1_RetryBound_Original ==
    (Returned /\ allFail) => calls = max_retries + 1

(* C1 (amended): when every invocation of scrape_track for a row failed,   *)
(* the retry controller has invoked it exactly max(max_retries, 1) times   *)
(* when it returns: max_retries bounds the attempts, not the retries.      *)
C1_RetryBound ==
    (Returned /\ allFail) => calls = Max(max_retries, 1)

C1_Witness ==
    /\ Returned
    /\ allFail
    /\ max_retries = DefaultMaxRetries
    /\ calls = DefaultMaxRetries
    /\ pc = "delay"

(* C2: after a first run that was cut short and a second run started with  *)
(* start_index = the number of the latest progress file and run to         *)
(* completion over the same CSV of N rows, the result files of the         *)
(* directory together hold a record for exactly the rows 0..N-1, each the  *)
(* record one uninterrupted run produces for it.                           *)
C2_IdempotentResume ==
    (pass = 2 /\ pc = "done" /\ state = "Completed") =>
        PersistedRecords = {Rec(i, HealthyReturn[1], HealthyReturn[2]) : i \in 0..(index - 1)}

(* C3: when KeyboardInterrupt arrives between two items, with k records    *)
(* appended, and the handler's write does not itself fail, the process     *)
(* ends with exactly those k records on disk (the interrupted file holds   *)
(* the k of them when k > 0, every other result file holds the first few   *)
(* of them, and there is no result file when k = 0), no progress file      *)
(* numbered above k, and no browser running.                               *)
C3_GracefulInterruption ==
    (pc = "done" /\ intAt \in BoundaryPcs /\ cause = "signal") =>
        /\ state = "Interrupted"
        /\ results = <<>> => ResultFiles = {}
        /\ results # <<>> => /\ FlushName \in DOMAIN disk
                             /\ disk[FlushName] = results
        /\ \A f \in ResultFiles :
              /\ Len(disk[f]) <= Len(results)
              /\ disk[f] = SubSeq(results, 1, Len(disk[f]))
        /\ \A c \in ProgressCursors(disk) : c <= Len(results)
        /\ live = {}

C3_Witness ==
    /\ pc = "done"
    /\ intAt = "delay"
    /\ cause = "signal"
    /\ Len(results) = 30
    /\ ProgressCursors(disk) = {25}
    /\ driver # 0
    /\ live = {}

(* C4: a progress file numbered c exists only for positive multiples c of  *)
(* 25 that the count of processed items has reached, and holds c records;  *)
(* with fewer than 25 processed items there is none; once the loop has     *)
(* passed the save step of the c-th item the file numbered c exists.       *)
PastSaveStep ==
    IF variant = "production"
      THEN pc \in {"break", "recycle_quit", "recycle_setup", "loop", "scrape",
                   "backoff", "final_save"}
      ELSE pc \in {"delay", "recycle_quit", "recycle_setup", "loop", "scrape",
                   "final_save"}

C4_CheckpointCadence ==
    /\ \A f \in DOMAIN disk : IsProgress(f) =>
          /\ f[2] > 0
          /\ f[2] % 25 = 0
          /\ f[2] <= Len(results)
          /\ Len(disk[f]) = f[2]
    /\ Len(results) < 25 => ProgressCursors(disk) = {}
    /\ \A c \in 1..Len(results) :
          (c % 25 = 0 /\ (c < Len(results) \/ PastSaveStep))
              => /\ ProgressName(variant, c) \in DOMAIN disk
                 /\ disk[ProgressName(variant, c)] = SubSeq(results, 1, c)

C4_Witness ==
    /\ Len(results) = 25
    /\ pc = "loop"
    /\ ProgressCursors(disk) = {25}

(* C5 (as stated): a run that completes N items has invoked setup_driver   *)
(* exactly ceil(N/K) + 1 times, K the restart cadence.                     *)
RestartCadence == IF variant = "production" THEN RestartEvery ELSE FastRestartEvery

C5_RecycleCount_Original ==
    (pc = "done" /\ state = "Completed") =>
        acquires = CeilDiv(Len(results), RestartCadence) + 1

(* C5 (amended): a run that completes N items has invoked setup_driver     *)
(* exactly floor(N/K) + 1 times: once in the constructor and once after    *)
(* every K-th processed item, with K = 300 in production_scrape and 500 in *)
(* fast_scrape.                                                            *)
C5_RecycleCount ==
    (pc = "done" /\ state = "Completed") =>
        acquires = (Len(results) \div RestartCadence) + 1

C5_Witness ==
    /\ pc = "done"
    /\ state = "Completed"
    /\ Len(results) >= RestartCadence
    /\ acquires = 2

(* C6: when the process has ended, no browser is running. *)
C6_ReleaseOnEveryExit ==
    pc = "done" => live = {}

(* C7: when KeyboardInterrupt arrives during an item's retry sequence      *)
(* (in scrape_track or in the backoff sleep), the record of that item is   *)
(* in the results flushed by the handler.                                  *)
C7_InterruptKeepsInFlightItem ==
    (pc = "done" /\ intAt \in {"scrape", "backoff"} /\ cause = "signal") =>
        /\ Returned
        /\ FlushName \in DOMAIN disk
        /\ results[Len(results)] \in Range(disk[FlushName])

(* C8: whatever the extractor does for a row, the step that processes it   *)
(* does not end the run (only a KeyboardInterrupt arriving there does).    *)
C8_PerItemFailuresNeverFatal ==
    [][(pc = "scrape" /\ pc' = "done") => intAt' = "scrape"]_vars

(* C9: when production_scrape has completed, the persisted failed_tracks   *)
(* file names exactly the rows whose attempt sequence ended in failure.    *)
PersistedFailures ==
    IF FailedName \in DOMAIN disk THEN Range(disk[FailedName]) ELSE {}

C9_FailureSetContent ==
    (variant = "production" /\ pc = "done" /\ state = "Completed") =>
        PersistedFailures = {r.track_id : r \in {q \in Range(results) : FailedOutcome(q)}}

(* C10: when the quit or the setup_driver of a browser restart raises, no  *)
(* further row is read, the error handler writes all results accumulated   *)
(* so far, the row that triggered the restart included (provided that      *)
(* write does not itself fail), and no browser is left running at the end. *)
C10_FatalRecycleFailure ==
    (cause = "session" /\ results # <<>>) =>
        /\ pc = "done"
        /\ state = "FatalError"
        /\ Returned
        /\ index = track_id + 1
        /\ Len(results) % RestartCadence = 0
        /\ ErrorName(variant, results) \in DOMAIN disk
        /\ disk[ErrorName(variant, results)] = results
        /\ live = {}

C10_Witness ==
    /\ cause = "session"
    /\ pc = "done"
    /\ Len(results) = RestartCadence
    /\ acquires = 2
    /\ disk[ErrorName(variant, results)] = results

(* C11: when the periodic save_progress of the loop raises and the write   *)
(* of the results that follows it succeeds, the run goes on with the       *)
(* remaining rows: it is still Running and has not ended.                  *)
C11_PersistRetryThenContinue ==
    [][(pc = "checkpoint" /\ cause' = "ledger" /\ exc' = "none")
          => (pc' # "done" /\ state' = "Running")]_vars

(* `if __name__ == "__main__": main()`: the status the interpreter exits   *)
(* with is 0 when main() returns and 1 when an exception leaves it.        *)
ExitStatus == IF exc = "none" THEN 0 ELSE 1

(* C12: a run that completed ends the process with status 0, and a run     *)
(* that ended in FatalError ends it with another status.                   *)
C12_DistinguishableFatalStatus ==
    pc = "done" =>
        /\ state = "Completed" => ExitStatus = 0
        /\ state = "FatalError" => ExitStatus # 0

(* the retry sequence of row track_id has begun and has not returned: the  *)
(* process is inside scrape_track_with_retry, or it ended there            *)
InFlight ==
    \/ pc \in {"scrape", "backoff"}
    \/ pc = "done" /\ intAt \in {"scrape", "backoff"}

(* C13: while the attempts for a row have not terminated (also when the    *)
(* run was ended in the middle of them), neither self.results nor any      *)
(* result file holds a record for that row; once the loop is past the      *)
(* retry controller's return, the row's record is the last of              *)
(* self.results; and (production) a record that carries a failure was      *)
(* appended only after max(max_retries, 1) invocations of scrape_track.    *)
C13_RecordIffTerminated ==
    /\ InFlight =>
          /\ \A i \in 1..Len(results) : results[i].track_id # track_id
          /\ \A f \in ResultFiles :
                \A i \in 1..Len(disk[f]) : disk[f][i].track_id # track_id
    /\ pc \in {"delay", "checkpoint", "break", "recycle_quit", "recycle_setup"}
          => Returned
    /\ (variant = "production" /\ Returned) =>
          LET r == results[Len(results)]
          IN  (HasError(r.lyrics) \/ HasError(r.cover) \/ HasFailed(r.lyrics))
                  => calls = Max(max_retries, 1)

C13_Witness ==
    /\ pc = "done"
    /\ intAt = "backoff"
    /\ calls = 2
    /\ track_id = 0
    /\ results = <<>>
    /\ ResultFiles = {}

(* the rows of the latest successful save_progress of this run: every      *)
(* write holds all of self.results of its moment, so it is the longest     *)
(* result file                                                             *)
LatestWrite ==
    IF ResultFiles = {} THEN <<>>
    ELSE disk[CHOOSE f \in ResultFiles :
                \A g \in ResultFiles : Len(disk[g]) <= Len(disk[f])]

Unflushed == Len(results) - Len(LatestWrite)

(* C14 (as stated): at every point of a run, fewer than 25 appended        *)
(* records are missing from the latest successful write.                   *)
C14_CrashLossBound_Original ==
    /\ LatestWrite = SubSeq(results, 1, Len(LatestWrite))
    /\ Unflushed < SaveEvery

(* C14 (amended): at every point of a run, the latest successful write     *)
(* holds the first records of self.results and at most 25 appended records *)
(* are missing from it: the 25th record of a window is appended before the *)
(* periodic save runs.                                                     *)
C14_CrashLossBound ==
    /\ LatestWrite = SubSeq(results, 1, Len(LatestWrite))
    /\ Unflushed <= SaveEvery

C14_Witness ==
    /\ pc = "checkpoint"
    /\ Len(results) = 2 * SaveEvery
    /\ Len(LatestWrite) = SaveEvery
    /\ Unflushed = SaveEvery

(* C15: the number in the name of every progress file is the position in   *)
(* the CSV up to which rows have been consumed when it was written:        *)
(* start_index plus the number of rows processed in this run.              *)
C15_CheckpointCursorMeaning ==
    \A f \in DOMAIN disk :
        IsProgress(f) =>
            /\ f[2] = start_index + Len(disk[f])
            /\ f[2] = disk[f][Len(disk[f])].track_id + 1

TerminalStates == {"Completed", "Interrupted", "FatalError"}

(* no scrape_track / extract_basic_info invocation, no results.append and  *)
(* no setup_driver happens in this step                                    *)
NoWork == calls' = calls /\ results' = results /\ acquires' = acquires

(* C16 (as stated): the run state changes only along Starting -> Running   *)
(* -> Completed | Interrupted | FatalError, and once a terminal state is   *)
(* entered no extractor invocation, append or setup_driver happens.        *)
C16_RunStateMachine_Original ==
    [][/\ state' # state =>
             <<state, state'>> \in
                 ({<<"Starting", "Running">>} \cup ({"Running"} \X TerminalStates))
       /\ state \in TerminalStates => (state' = state /\ NoWork)]_vars

(* C16 (amended): the run state changes only along Starting -> Running ->  *)
(* Completed | Interrupted | FatalError, or from Starting directly to      *)
(* Interrupted or FatalError (the constructor or the loading of the CSV    *)
(* raises, or KeyboardInterrupt arrives, before the loop is entered); once *)
(* a terminal state is entered no extractor invocation, append or          *)
(* setup_driver happens.                                                   *)
C16_RunStateMachine ==
    [][/\ state' # state =>
             <<state, state'>> \in
                 ({<<"Starting", "Running">>} \cup ({"Running"} \X TerminalStates)
                  \cup ({"Starting"} \X {"Interrupted", "FatalError"}))
       /\ state \in TerminalStates => (state' = state /\ NoWork)]_vars

C16_Witness ==
    /\ pc = "done"
    /\ state = "FatalError"
    /\ cause = "loader"
    /\ results = <<>>
    /\ calls = 0
    /\ acquires = 1

(* C17: the records of self.results are those of the rows start_index,     *)
(* start_index + 1, ... in that order, one each; no row before start_index *)
(* is handed to the extractor; and a completed pass has a record for every *)
(* row at or after start_index that the CSV holds.                         *)
C17_AtMostOncePerPass ==
    /\ \A i \in 1..Len(results) : results[i].track_id = start_index + i - 1
    /\ track_id >= 0 => track_id >= start_index
    /\ calls > 0 => track_id >= start_index
    /\ (pc = "done" /\ state = "Completed") =>
          Len(results) = Max(index - start_index, 0)

C17_Witness ==
    /\ pc = "done"
    /\ state = "Completed"
    /\ start_index = 1
    /\ index = 4
    /\ Len(results) = 3
    /\ results[1].track_id = 1

(* C18: in every state, scrape_track has been invoked at most              *)
(* max_retries + 1 times for the current row.                              *)
C18_AttemptCountBound ==
    calls <= max_retries + 1

C18_Witness ==
    /\ Returned
    /\ max_retries = 0
    /\ calls = max_retries + 1
    /\ lastOut.kind = "raise"
    /\ results[Len(results)] = FailedRecord(track_id)

(* the outcome of an attempt is a failing one: scrape_track raised, or a   *)
(* field of the record it returned carries "Error"                         *)
FailingOutcome(out) ==
    \/ out.kind = "raise"
    \/ out.kind = "return" /\ (HasError(out.val[1]) \/ HasError(out.val[2]))

(* the record the retry controller returns for a last outcome *)
OutcomeRecord(id, out) ==
    IF out.kind = "return" THEN Rec(id, out.val[1], out.val[2]) ELSE FailedRecord(id)

(* C19: after an attempt the retry controller goes to the backoff sleep    *)
(* and another attempt exactly when the outcome was a failing one and      *)
(* attempt < max_retries; otherwise it returns the record of that last     *)
(* outcome; an outcome of the first attempt that is not failing is         *)
(* returned after one invocation and no sleep; and the backoff sleep is    *)
(* followed by the attempt numbered attempt + 1.                           *)
C19_RetryDecisionRule ==
    [][/\ (pc = "scrape" /\ calls' = calls + 1) =>
            /\ (pc' = "backoff") <=>
                   (FailingOutcome(lastOut') /\ attempt < max_retries)
            /\ pc' # "backoff" =>
                   results' = Append(results, OutcomeRecord(track_id, lastOut'))
            /\ (attempt = 1 /\ ~FailingOutcome(lastOut')) =>
                   (calls' = 1 /\ pc' = "delay")
       /\ (pc = "backoff" /\ pc' # "done") =>
            (pc' = "scrape" /\ attempt' = attempt + 1 /\ calls' = calls)]_vars

C19_Witness ==
    /\ Returned
    /\ max_retries = 2
    /\ attempt = 2
    /\ calls = 2
    /\ lastOut = [kind |-> "return", val |-> <<"la la la", "Error extracting image">>]
    /\ results[Len(results)] = Rec(track_id, "la la la", "Error extracting image")

(* positions of production_scrape after adaptive_delay and before the      *)
(* next append: success_count and len(self.results) are still the ones     *)
(* the delay was computed from                                             *)
AfterDelayPcs ==
    {"checkpoint", "break", "recycle_quit", "recycle_setup", "loop", "final_save"}

(* C20: the delay adaptive_delay sleeps lies in [1.5*min, 2*max] when the  *)
(* success rate is below 0.8, in [0.8*min, 0.8*max] when it is above 0.95, *)
(* and in [min, max] otherwise (0.8 and 0.95 included), min = 2 s and      *)
(* max = 5 s; and the ends of the active range are the least and the       *)
(* greatest delay random.uniform can give.                                 *)
C20_RateAdaptation ==
    (variant = "production" /\ pc \in AfterDelayPcs /\ results # <<>>) =>
        LET s == success_count
            c == Len(results)
            lo == IF 5 * s < 4 * c THEN (3 * BaseDelayMin) \div 2
                  ELSE IF 20 * s > 19 * c THEN (4 * BaseDelayMin) \div 5
                  ELSE BaseDelayMin
            hi == IF 5 * s < 4 * c THEN 2 * BaseDelayMax
                  ELSE IF 20 * s > 19 * c THEN (4 * BaseDelayMax) \div 5
                  ELSE BaseDelayMax
        IN  /\ last_delay \in lo..hi
            /\ rng = "lo" => last_delay = lo
            /\ rng = "hi" => last_delay = hi

C20_Witness ==
    /\ variant = "production"
    /\ pc \in AfterDelayPcs
    /\ Len(results) = 100
    /\ success_count = 99
    /\ rng = "hi"
    /\ last_delay = 40

(* the delay range adaptive_delay uses for the success rate of the moment  *)
RangeInForce ==
    AdaptiveRange(SuccessRate(success_count, Len(results)), BaseDelayMin, BaseDelayMax)

(* C21: the backoff sleeps of a row never get shorter from one retry to    *)
(* the next, and once an item has been processed every backoff sleep is    *)
(* at least as long as the upper end of the delay range adaptive_delay     *)
(* uses at that moment.                                                    *)
C21_BackoffShape ==
    /\ \A i \in 1..(Len(backoffs) - 1) : backoffs[i] <= backoffs[i + 1]
    /\ results # <<>> =>
          \A i \in 1..Len(backoffs) : backoffs[i] >= RangeInForce[2]

TestResults == {f \in DOMAIN disk : f[1] = "test_result"}

(* C22: whatever the page of a row does (lyrics found, no lyrics, no       *)
(* image, an exception in either extraction), scrape_track returns a       *)
(* record for that row and does not raise: the record carries the row's    *)
(* track_id, its lyrics carry "Error" exactly when the lyrics extraction   *)
(* raised and its cover exactly when the image extraction raised, and the  *)
(* loop that calls it is never ended by an item.                           *)
C22_ScrapeTrackTotal ==
    variant = "test" =>
        /\ calls > 0 => lastOut.kind = "return"
        /\ \A f \in TestResults :
              LET r == disk[f][1]
                  p == pages[f[2]]
              IN  /\ Len(disk[f]) = 1
                  /\ r.track_id = f[2]
                  /\ HasError(r.lyrics) <=> p[1] = "raise"
                  /\ HasError(r.cover) <=> p[2] = "raise"
        /\ (pc = "loop" \/ state = "Completed") =>
              \A i \in 0..(index - 1) : TestResultName(i) \in DOMAIN disk
        /\ state = "FatalError" => cause \in {"loader", "session", "ledger"}

C22_Witness ==
    /\ variant = "test"
    /\ pc = "done"
    /\ state = "Completed"
    /\ index = 2
    /\ pages[0] = <<"raise", "raise">>
    /\ pages[1] = <<"no_lyrics", "no_image">>
    /\ disk[TestResultName(0)] = <<Rec(0, "Error extracting lyrics", "Error extracting image")>>
    /\ disk[TestResultName(1)] = <<Rec(1, "No lyrics available", "No image available")>>


(* C23: once the loop has consumed every row from the resume point, the    *)
(* run ends Completed with the final file holding every record of the run, *)
(* unless it is interrupted or a write to the disk fails; this includes    *)
(* the run with no pending row, which ends Completed and not FatalError.   *)
C23_Completion ==
    [][(pc = "final_save" /\ intAt' = "" /\ cause' \notin {"ledger", "flush"}) =>
          /\ state' = "Completed"
          /\ results # <<>> =>
                /\ FinalName(variant) \in DOMAIN disk'
                /\ disk'[FinalName(variant)] = results]_vars


(* C24: at most one browser is live in every reachable state, and while an *)
(* extraction is being issued or retried, self.driver is a browser that    *)
(* was started and has not been quit, also after a browser restart; a      *)
(* restart whose setup_driver failed is followed by no extraction.         *)
C24_SessionSingleton ==
    /\ Cardinality(live) <= 1
    /\ pc \in {"scrape", "backoff"} => driver \in live
    /\ driver \notin live => pc \in {"ctor", "recycle_setup", "done"}

C24_Witness ==
    /\ pc = "delay"
    /\ calls = 1
    /\ track_id = RestartEvery
    /\ acquires = 2
    /\ driver = 2
    /\ live = {2}


(* C25: in production_scrape an item is counted in success_count exactly   *)
(* when its final outcome is not one the retry controller classifies as    *)
(* failed, so success_count is the number of records with a non-failed     *)
(* final outcome.                                                          *)
C25_SuccessAccounting ==
    variant = "production" =>
        success_count =
            Cardinality({i \in 1..Len(results) : ~FailedOutcome(results[i])})


(* C26: once the pace check of production_scrape has fired at the end of   *)
(* an iteration, the delay of the following items is drawn from a lower    *)
(* range than before it fired: for the same success rate and the same      *)
(* draw, it is shorter than the delay from the range built on 2 s and 5 s. *)
C26_PaceCorrection ==
    (variant = "production" /\ pc \in AfterDelayPcs
       /\ Len(results) >= 2 /\ Behind(behindFrom, Len(results) - 1)) =>
        /\ pace_locals = ReducedDelays
        /\ last_delay < AdaptiveDelay(rng, SuccessRate(success_count, Len(results)),
                                      BaseDelayMin, BaseDelayMax)


(* C27: in scrape_all_tracks, whatever batch_size is, the browser has been *)
(* restarted once for every 200 results when an iteration ends, and the    *)
(* progress file holds the results up to the latest multiple of            *)
(* batch_size.                                                             *)
C27_BaseRecycleCadence ==
    (variant = "base" /\ pc = "loop") =>
        /\ acquires = 1 + Len(results) \div BaseRestartEvery
        /\ Len(results) >= batch_size =>
              /\ BaseProgressName \in DOMAIN disk
              /\ disk[BaseProgressName] =
                    SubSeq(results, 1, (Len(results) \div batch_size) * batch_size)


IsPrefixOf(p, q) == Len(p) <= Len(q) /\ SubSeq(q, 1, Len(p)) = p

(* C28: within a run self.results changes only by one record being         *)
(* appended, for the row in hand; every write of a results file holds the  *)
(* whole of self.results at that moment, so every file written earlier     *)
(* (periodic, final, interrupted or error) is a prefix of it.              *)
C28_AppendOnlyLedger ==
    [][/\ \/ results' = results
          \/ /\ pc = "scrape"
             /\ Len(results') = Len(results) + 1
             /\ IsPrefixOf(results, results')
             /\ results'[Len(results')].track_id = track_id
       /\ \A f \in DOMAIN disk' \ {FailedName} :
             (f \notin DOMAIN disk \/ disk'[f] # disk[f]) =>
                /\ disk'[f] = results'
                /\ \A g \in DOMAIN disk \ {FailedName} : IsPrefixOf(disk[g], disk'[f])
      ]_vars

C28_Witness ==
    /\ pc = "done"
    /\ state = "Interrupted"
    /\ Len(results) = SaveEvery + 1
    /\ ProgressName(variant, SaveEvery) \in DOMAIN disk
    /\ InterruptedName(variant, results) \in DOMAIN disk
    /\ disk[InterruptedName(variant, results)] = results
    /\ disk[ProgressName(variant, SaveEvery)] = SubSeq(results, 1, SaveEvery)


(* place of a step in the per-item order "retry sequence, append, success  *)
(* rate, delay, checkpoint, break, restart"                                *)
StatedRank(x) ==
    CASE x \in {"call", "sleep"} -> 1
      [] x = "append" -> 2
      [] x = "rate" -> 3
      [] x = "delay" -> 4
      [] x = "save" -> 5
      [] x = "break" -> 6
      [] x = "restart" -> 7

(* the same order with the periodic save of fast_scrape ahead of its delay *)
LoopRank(v, x) ==
    IF v = "fast" /\ x = "save" THEN 3
    ELSE IF v = "fast" /\ x = "delay" THEN 4
    ELSE StatedRank(x)

(* a sleep stands between any two extractor invocations: inside a row a    *)
(* call is followed by a backoff sleep or by the append, and a row is      *)
(* entered only after the delay of the row before                          *)
SleepBetweenCalls ==
    /\ \A i \in 1..(Len(steps) - 1) :
          /\ steps[i] = "call" => steps[i + 1] \in {"sleep", "append"}
          /\ steps[i] = "sleep" => steps[i + 1] = "call"
    /\ (pc = "scrape" /\ calls = 0 /\ steps # <<>>) =>
          \E i \in 1..Len(steps) : steps[i] = "delay"

C30_LyricsFlushOnInterruption ==
    (variant = "lyrics" /\ pc = "done" /\ results # <<>>
       /\ state \in {"Interrupted", "FatalError"} /\ cause # "ledger") =>
        /\ driver \notin live
        /\ LyricsOutName \in DOMAIN disk
        /\ disk[LyricsOutName] = results


(* main() has returned or has been left by an exception *)
Ended == pc = "done"

(* the extractor is invoked at most max_retries + 1 times for a row, by at *)
(* most max_retries nested self-calls of the retry controller, and only    *)
(* for pending rows, each of them entered once, in increasing order: so a  *)
(* run makes at most (pending rows) x (max_retries + 1) invocations        *)
BoundedWork ==
    /\ [](attempt - 1 <= max_retries /\ calls <= max_retries + 1)
    /\ [][/\ calls' # calls =>
               \/ calls' = calls + 1 /\ track_id' = track_id
               \/ calls' = 0 /\ track_id' # track_id
          /\ calls' = calls + 1 => (track_id >= start_index /\ track_id < maxRows)
          /\ track_id' # track_id => (track_id' > track_id /\ calls' = 0)]_vars

==========================================================================
